---- MODULE Spec2Model ----
(***************************************************************************)
(* A model of rxRust: the Subscriber gate, the take / first_or operator    *)
(* closures, the multicast / publish broadcast core and the throttle_time  *)
(* observer.  Each subsystem has its own specification over the shared     *)
(* variable list; the variables of the other subsystems stay at rest.      *)
(***************************************************************************)
EXTENDS Integers, Sequences, FiniteSets, TLC

(***************************************************************************)
(* Bounds of the model.                                                    *)
(***************************************************************************)
MaxCalls == 4

MaxItem == 2

MaxTotal == 3

NumForks == 2

MaxDelay == 3

MaxPace == 2

MaxTime == 4

MaxUnsub == 2

(***************************************************************************)
(* Events as they reach an observer.                                       *)
(***************************************************************************)
Ev(k, v) == [k |-> k, v |-> v]

EvNext(v) == Ev("next", v)

EvComplete == Ev("complete", 0)

EvError == Ev("error", 0)

IsTerminal(e) == e.k \in {"complete", "error"}

RECURSIVE CountIf(_, _)
CountIf(s, k) ==
  IF s = <<>> THEN 0
  ELSE (IF Head(s).k = k THEN 1 ELSE 0) + CountIf(Tail(s), k)

TerminalCount(s) == CountIf(s, "complete") + CountIf(s, "error")

VARIABLES
  subClosed,   \* Subscriber.subscription: FALSE = Active, TRUE = Closed
  subPc,       \* position inside the running Subscriber handler
  subArg,      \* the item of the running next call
  subSeen,     \* events that reached the wrapped observer, in order
  subCalls,    \* calls made on the Subscriber so far, in order
  chStages,    \* the operator chain between the source and the consumer
  chStopped,   \* the source's Subscriber has delivered a terminal event
  chLog,       \* events that reached the consumer's handlers, in order
  chCalls,     \* calls the source made on its subscriber, in order
  chDone,      \* the source's subscribe function has returned
  bcApi,       \* how the broadcast core was made: "multicast" or "publish"
  bcCore,      \* the core's kind: "eager" or "connectable"
  bcSync,      \* the source emits everything inside its subscribe call
  bcUpstream,  \* subscriptions made to the upstream source so far
  bcConnected, \* connect() has been called
  bcRegistry,  \* the sinks registered in the core
  bcPre,       \* the sinks that were registered when connect() was called
  bcEmitted,   \* items the source has emitted so far: 1 .. bcEmitted
  bcSrcDone,   \* the source has completed
  bcForks,     \* per fork: subscribed, its operator chain, gate and log
  thEdge,      \* ThrottleTimeOp.edge: "Leading" or "Tailing"
  thDelay,     \* InnerThrottleTimeObserver.delay, in ticks
  thPace,      \* the source is an interval: item i is due at i * thPace
  thNow,       \* the clock, in ticks
  thSent,      \* next calls the source has made: the items 0 .. thSent - 1
  thSrcDone,   \* the source has called complete or error
  thClosed,    \* the subscription shared by the Subscriber and the observer
  thTrailing,  \* trailing_value: <<>> is None, <<v>> is Some(v)
  thThrottled, \* throttled: <<>> is None, <<h>> is Some(handle h)
  thTimers,    \* the tasks handed to the scheduler; a handle is an index
  thChildren,  \* the handles added to inner.subscription
  thOut,       \* events that reached the downstream observer, in order
  thArrivals,  \* the next calls that reached ThrottleTimeObserver::next
  thPc,        \* where the producer thread is within a Subscriber call
  thHolders,   \* the threads inside a critical section of the mutex
  thUnsubCalls, \* unsubscribe() calls the consumer has made
  thCut,       \* what had happened when the consumer first unsubscribed
  duLocal,     \* a Subscriber made by Subscriber::local: closed, seen
  duShared,    \* a Subscriber made by Subscriber::shared: closed, seen
  duCalls,     \* the calls made, in order, on both of them
  fkN,         \* the n of take(n), of the forked operator and of each fork
  fkM,         \* the number of items the source holds
  fkSubs       \* per fork: subscribed, its closures' state, gate, log, run

subVars == <<subClosed, subPc, subArg, subSeen, subCalls>>

chVars == <<chStages, chStopped, chLog, chCalls, chDone>>

bcVars ==
  <<bcApi, bcCore, bcSync, bcUpstream, bcConnected, bcRegistry, bcPre,
    bcEmitted, bcSrcDone, bcForks>>

thVars ==
  <<thEdge, thDelay, thPace, thNow, thSent, thSrcDone, thClosed, thTrailing,
    thThrottled, thTimers, thChildren, thOut, thArrivals, thPc, thHolders,
    thUnsubCalls, thCut>>

duVars == <<duLocal, duShared, duCalls>>

fkVars == <<fkN, fkM, fkSubs>>

vars == <<subVars, chVars, bcVars, thVars, duVars, fkVars>>

\* what the actions of one subsystem leave alone: the other subsystems
subFrame == <<chVars, bcVars, thVars, duVars, fkVars>>

chFrame == <<subVars, bcVars, thVars, duVars, fkVars>>

bcFrame == <<subVars, chVars, thVars, duVars, fkVars>>

thFrame == <<subVars, chVars, bcVars, duVars, fkVars>>

duFrame == <<subVars, chVars, bcVars, thVars, fkVars>>

fkFrame == <<subVars, chVars, bcVars, thVars, duVars>>

(***************************************************************************)
(* Subscription of a Subscriber (LocalSubscription / SharedSubscription):  *)
(* Active or Closed, unsubscribe() closes it and is idempotent.            *)
(***************************************************************************)
SubscriptionDefault == FALSE

is_closed(s) == s

unsubscribe(s) == TRUE

(***************************************************************************)
(* Subscriber: impl Observer.  Each handler first tests is_closed(); the   *)
(* terminal handlers forward to the observer and then unsubscribe.         *)
(***************************************************************************)
SubNextGateAlways(s) == TRUE

SubNextGate(s) == ~is_closed(s)

SubTerminalGateAlways(s) == TRUE

SubTerminalGate(s) == ~is_closed(s)

SubAfterTerminalKeep(s) == s

SubAfterTerminal(s) == unsubscribe(s)

SubInit ==
  /\ subClosed = SubscriptionDefault
  /\ subPc = "idle"
  /\ subArg = 0
  /\ subSeen = <<>>
  /\ subCalls = <<>>

SubCall(name, v, pcIn, open) ==
  /\ subPc = "idle"
  /\ Len(subCalls) < MaxCalls
  /\ subCalls' = Append(subCalls, Ev(name, v))
  /\ IF open
       THEN subPc' = pcIn /\ subArg' = v
       ELSE subPc' = "idle" /\ subArg' = subArg
  /\ UNCHANGED <<subClosed, subSeen>>
  /\ UNCHANGED subFrame

\* Subscriber::next, the is_closed() test
SubNextCall ==
  \E v \in 1..MaxItem : SubCall("next", v, "next", SubNextGate(subClosed))

\* Subscriber::next, self.observer.next(v)
SubNextForward ==
  /\ subPc = "next"
  /\ subSeen' = Append(subSeen, EvNext(subArg))
  /\ subPc' = "idle"
  /\ UNCHANGED <<subClosed, subArg, subCalls>>
  /\ UNCHANGED subFrame

\* Subscriber::complete, the is_closed() test
SubCompleteCall ==
  SubCall("complete", 0, "complete", SubTerminalGate(subClosed))

\* Subscriber::complete, self.observer.complete()
SubCompleteForward ==
  /\ subPc = "complete"
  /\ subSeen' = Append(subSeen, EvComplete)
  /\ subPc' = "closing"
  /\ UNCHANGED <<subClosed, subArg, subCalls>>
  /\ UNCHANGED subFrame

\* Subscriber::error, the is_closed() test
SubErrorCall == SubCall("error", 0, "error", SubTerminalGate(subClosed))

\* Subscriber::error, self.observer.error(err)
SubErrorForward ==
  /\ subPc = "error"
  /\ subSeen' = Append(subSeen, EvError)
  /\ subPc' = "closing"
  /\ UNCHANGED <<subClosed, subArg, subCalls>>
  /\ UNCHANGED subFrame

\* Subscriber::complete / error, self.subscription.unsubscribe()
SubClose ==
  /\ subPc = "closing"
  /\ subClosed' = SubAfterTerminal(subClosed)
  /\ subPc' = "idle"
  /\ UNCHANGED <<subArg, subSeen, subCalls>>
  /\ UNCHANGED subFrame

\* SubscriptionLike::unsubscribe on the Subscriber or on a clone of its
\* shared subscription handle; it may run while a handler is in flight.
SubUnsubscribe ==
  /\ Len(subCalls) < MaxCalls
  /\ subCalls' = Append(subCalls, Ev("unsubscribe", 0))
  /\ subClosed' = unsubscribe(subClosed)
  /\ UNCHANGED <<subPc, subArg, subSeen>>
  /\ UNCHANGED subFrame

(***************************************************************************)
(* Operator chains: take (ops/take.rs) and first_or (ops/first.rs) as the  *)
(* closures they hand to their source.  A chain is the sequence of its     *)
(* stages, the stage next to the source first; stage Len + 1 is the        *)
(* consumer.                                                               *)
(***************************************************************************)
FirstOrDefault == 100

OuterDefault == 0

\* Take::take(count): a TakeOp and its per-subscription counter
TakeStage(n) ==
  [op |-> "take", total |-> n, count |-> 0, dflt |-> 0, passed |-> FALSE]

\* First::first
FirstStage == TakeStage(1)

\* the FirstOrOp of FirstOr::first_or(default); its source is self.first()
FirstOrStage(d) ==
  [op |-> "first_or", total |-> 0, count |-> 0, dflt |-> d, passed |-> FALSE]

\* FirstOr::first_or(default)
FirstOr(d) == <<FirstStage, FirstOrStage(d)>>

\* what the next closure built by Subscribable::subscribe* returns
UserNextState == "Next"

TakeAdmitsAll(count, total) == TRUE

\* subscribe_source: if count.get() < total
TakeAdmits(count, total) == count < total

TakeReturnPass(count, total, os) == os

\* subscribe_source: the match on the state the downstream next returned
TakeReturn(count, total, os) ==
  IF os = "Next" THEN (IF count = total THEN "Complete" ELSE os) ELSE os

FirstOrNeedsDefaultAlways(passed) == TRUE

\* FirstOrOp: if !c_passed.load(..)
FirstOrNeedsDefault(passed) == ~passed

RECURSIVE PushNext(_, _, _)
\* the next closure of stage k called with v
PushNext(st, k, v) ==
  IF k > Len(st)
    THEN [st |-> st, out |-> <<EvNext(v)>>, ret |-> UserNextState]
  ELSE IF st[k].op = "take"
    THEN IF TakeAdmits(st[k].count, st[k].total)
           THEN LET r == PushNext([st EXCEPT ![k].count = @ + 1], k + 1, v)
                IN  [st |-> r.st, out |-> r.out,
                     ret |-> TakeReturn(r.st[k].count, st[k].total, r.ret)]
           ELSE [st |-> st, out |-> <<>>, ret |-> "Complete"]
  ELSE PushNext([st EXCEPT ![k].passed = TRUE], k + 1, v)

RECURSIVE PushComplete(_, _)
\* the complete closure of stage k called
PushComplete(st, k) ==
  IF k > Len(st)
    THEN [st |-> st, out |-> <<EvComplete>>]
  ELSE IF st[k].op = "first_or" /\ FirstOrNeedsDefault(st[k].passed)
    THEN LET r1 == PushNext(st, k + 1, st[k].dflt)
             r2 == PushComplete(r1.st, k + 1)
         IN  [st |-> r2.st, out |-> r1.out \o r2.out]
  ELSE PushComplete(st, k + 1)

PushErrorAfterDefault(st, k) ==
  [st |-> st, out |-> <<EvNext(FirstOrDefault), EvError>>]

\* the error closure: take and first_or hand it to their source untouched
PushError(st, k) == [st |-> st, out |-> <<EvError>>]

\* The source's Subscriber: it gates on its closed state like
\* Subscriber::next / complete / error and turns the tri-state a next
\* closure returns into the terminal call.
DriverGate(stopped) == ~stopped

DriverReact(st, ret) ==
  IF ret = "Complete" THEN PushComplete(st, 1)
  ELSE IF ret = "Err" THEN PushError(st, 1)
  ELSE [st |-> st, out |-> <<>>]

DriverNext(st, stopped, v) ==
  IF DriverGate(stopped)
    THEN LET r == PushNext(st, 1, v)
             t == DriverReact(r.st, r.ret)
         IN  [st |-> t.st, out |-> r.out \o t.out, stopped |-> r.ret # "Next"]
    ELSE [st |-> st, out |-> <<>>, stopped |-> stopped]

DriverComplete(st, stopped) ==
  IF DriverGate(stopped)
    THEN LET r == PushComplete(st, 1)
         IN  [st |-> r.st, out |-> r.out, stopped |-> TRUE]
    ELSE [st |-> st, out |-> <<>>, stopped |-> stopped]

DriverError(st, stopped) ==
  IF DriverGate(stopped)
    THEN LET r == PushError(st, 1)
         IN  [st |-> r.st, out |-> r.out, stopped |-> TRUE]
    ELSE [st |-> st, out |-> <<>>, stopped |-> stopped]

\* the chains the checks run: take(n), first_or(d), and a first_or whose
\* source is itself a first_or
Chains ==
  {<<TakeStage(n)>> : n \in 0..MaxTotal}
    \cup {FirstOr(FirstOrDefault), FirstOr(FirstOrDefault) \o FirstOr(OuterDefault)}

ChainIdle ==
  /\ chStages = <<>>
  /\ chStopped = FALSE
  /\ chLog = <<>>
  /\ chCalls = <<>>
  /\ chDone = FALSE

ChainInit ==
  /\ chStages \in Chains
  /\ chStopped = FALSE
  /\ chLog = <<>>
  /\ chCalls = <<>>
  /\ chDone = FALSE

ChApply(call, r) ==
  /\ ~chDone
  /\ Len(chCalls) < MaxCalls
  /\ chCalls' = Append(chCalls, call)
  /\ chStages' = r.st
  /\ chStopped' = r.stopped
  /\ chLog' = chLog \o r.out
  /\ UNCHANGED chDone
  /\ UNCHANGED chFrame

\* the source pushes its next item; the items are 1, 2, 3, ...
ChSrcNext ==
  LET v == CountIf(chCalls, "next") + 1
  IN  ChApply(EvNext(v), DriverNext(chStages, chStopped, v))

\* the source calls complete
ChSrcComplete == ChApply(EvComplete, DriverComplete(chStages, chStopped))

\* the source calls error
ChSrcError == ChApply(EvError, DriverError(chStages, chStopped))

\* the source's subscribe function returns: it makes no further call
ChSrcReturn ==
  /\ ~chDone
  /\ chDone' = TRUE
  /\ UNCHANGED <<chStages, chStopped, chLog, chCalls>>
  /\ UNCHANGED chFrame

(***************************************************************************)
(* The broadcast core behind multicast() / publish() and its forks.  The   *)
(* repository's files hold the Multicast and Fork traits (ops/fork.rs),    *)
(* Publish::publish (ops/publish.rs) and the operators' fork impls         *)
(* (ops/first.rs); the core itself follows the design's description: one   *)
(* upstream subscription, made on the first fork subscription (multicast)  *)
(* or on connect() (publish), and every event fanned out to the sinks      *)
(* registered at that time.                                                *)
(***************************************************************************)
Forks == 1..NumForks

\* Multicast::multicast: the core starts with its first subscription
MulticastCore == "eager"

PublishEager == "eager"

\* Publish::publish: LocalConnectableObservable::local(self)
Publish == "connectable"

CoreFor(api) == IF api = "publish" THEN Publish ELSE MulticastCore

\* the chains a fork is subscribed through: none (p.fork().subscribe(..))
\* or o.fork().first() over a multicast of from_range(1..100).first()
ForkChains == {<<>>, <<FirstStage, FirstStage>>}

ForkInit(chain) == [sub |-> FALSE, st |-> chain, stopped |-> FALSE, log |-> <<>>]

SubscribesUpstreamAlways(core, upstream) == core = "eager"

\* a fork subscription subscribes the source only on an eager core that
\* has not done so yet
SubscribesUpstream(core, upstream) == core = "eager" /\ upstream = 0

\* one item fanned out to the registered sinks, each behind its Subscriber
BcFanNext(forks, reg, v) ==
  [f \in Forks |->
    IF f \in reg
      THEN LET r == DriverNext(forks[f].st, forks[f].stopped, v)
           IN  [forks[f] EXCEPT !.st = r.st, !.stopped = r.stopped,
                                !.log = @ \o r.out]
      ELSE forks[f]]

\* the source's complete fanned out to the registered sinks
BcFanComplete(forks, reg) ==
  [f \in Forks |->
    IF f \in reg
      THEN LET r == DriverComplete(forks[f].st, forks[f].stopped)
           IN  [forks[f] EXCEPT !.st = r.st, !.stopped = r.stopped,
                                !.log = @ \o r.out]
      ELSE forks[f]]

RECURSIVE BcRun(_, _, _, _)
\* a synchronous source (from_range, of): items v .. last, then complete
BcRun(forks, reg, v, last) ==
  IF v > last THEN BcFanComplete(forks, reg)
  ELSE BcRun(BcFanNext(forks, reg, v), reg, v + 1, last)

\* the core subscribes the source; a synchronous source runs to its end
\* inside that call
BcStart(forks, reg) ==
  /\ bcUpstream' = bcUpstream + 1
  /\ IF bcSync
       THEN /\ bcForks' = BcRun(forks, reg, 1, MaxItem)
            /\ bcEmitted' = MaxItem
            /\ bcSrcDone' = TRUE
       ELSE /\ bcForks' = forks
            /\ UNCHANGED <<bcEmitted, bcSrcDone>>

BcIdle ==
  /\ bcApi = "multicast"
  /\ bcCore = MulticastCore
  /\ bcSync = TRUE
  /\ bcUpstream = 0
  /\ bcConnected = FALSE
  /\ bcRegistry = {}
  /\ bcPre = {}
  /\ bcEmitted = 0
  /\ bcSrcDone = FALSE
  /\ bcForks = [f \in Forks |-> ForkInit(<<>>)]

BcInit ==
  /\ bcApi \in {"multicast", "publish"}
  /\ bcCore = CoreFor(bcApi)
  /\ bcSync \in BOOLEAN
  /\ bcUpstream = 0
  /\ bcConnected = FALSE
  /\ bcRegistry = {}
  /\ bcPre = {}
  /\ bcEmitted = 0
  /\ bcSrcDone = FALSE
  /\ \E chain \in ForkChains : bcForks = [f \in Forks |-> ForkInit(chain)]

\* fork().subscribe(..): the sink is registered; on an eager core the
\* first subscription also subscribes the source
BcSubscribeFork(f) ==
  /\ ~bcForks[f].sub
  /\ bcRegistry' = bcRegistry \cup {f}
  /\ LET forks == [bcForks EXCEPT ![f].sub = TRUE]
     IN  IF SubscribesUpstream(bcCore, bcUpstream)
           THEN BcStart(forks, bcRegistry \cup {f})
           ELSE /\ bcForks' = forks
                /\ UNCHANGED <<bcUpstream, bcEmitted, bcSrcDone>>
  /\ UNCHANGED <<bcApi, bcCore, bcSync, bcConnected, bcPre>>
  /\ UNCHANGED bcFrame

\* Connect::connect on the observable publish() returned
BcConnect ==
  /\ bcApi = "publish"
  /\ ~bcConnected
  /\ bcConnected' = TRUE
  /\ bcPre' = bcRegistry
  /\ IF bcUpstream = 0
       THEN BcStart(bcForks, bcRegistry)
       ELSE UNCHANGED <<bcUpstream, bcForks, bcEmitted, bcSrcDone>>
  /\ UNCHANGED <<bcApi, bcCore, bcSync, bcRegistry>>
  /\ UNCHANGED bcFrame

\* an asynchronous source (a subject, an interval) emits its next item
BcEmit ==
  /\ ~bcSync
  /\ bcUpstream >= 1
  /\ ~bcSrcDone
  /\ bcEmitted < MaxItem
  /\ bcEmitted' = bcEmitted + 1
  /\ bcForks' = BcFanNext(bcForks, bcRegistry, bcEmitted + 1)
  /\ UNCHANGED <<bcApi, bcCore, bcSync, bcUpstream, bcConnected, bcRegistry,
                 bcPre, bcSrcDone>>
  /\ UNCHANGED bcFrame

\* an asynchronous source completes
BcSrcComplete ==
  /\ ~bcSync
  /\ bcUpstream >= 1
  /\ ~bcSrcDone
  /\ bcSrcDone' = TRUE
  /\ bcForks' = BcFanComplete(bcForks, bcRegistry)
  /\ UNCHANGED <<bcApi, bcCore, bcSync, bcUpstream, bcConnected, bcRegistry,
                 bcPre, bcEmitted>>
  /\ UNCHANGED bcFrame

(***************************************************************************)
(* throttle_time (ops/throttle_time.rs).  The source is an interval that   *)
(* pushes 0, 1, 2, ... through a Subscriber whose observer is the          *)
(* ThrottleTimeObserver; that Subscriber's subscription is the one the     *)
(* observer adds its timer handles to (ThrottleTimeOp<Shared<S>>).  A      *)
(* call of the producer is the Subscriber's is_closed() test, the wait for *)
(* the observer's mutex, the handler's body under the mutex and, for a     *)
(* terminal call, the Subscriber's unsubscribe(); the scheduled callback   *)
(* is the wait for the mutex and its body.  The scheduler runs a task no   *)
(* earlier than its delay and not at all once its handle is unsubscribed   *)
(* before the task takes the mutex.                                        *)
(***************************************************************************)
Edges == {"Leading", "Tailing"}

None == <<>>

Some(v) == <<v>>

\* Schedulers::ThreadPool.schedule(task, Some(delay), ()): a new handle
ThSchedule(timers, now, delay) ==
  Append(timers,
         [deadline |-> now + delay, state |-> "scheduled", cancels |-> 0,
          afterCut |-> FALSE])

\* unsubscribe() on the handle t: a task not yet started never runs
ThHandleUnsubscribe(timers, t) ==
  [h \in DOMAIN timers |->
    IF h = t /\ timers[h].state = "scheduled"
      THEN [timers[h] EXCEPT !.state = "cancelled"]
      ELSE timers[h]]

\* the cascade of a closing subscription: each child handle is unsubscribed
ThCancel(timers, hs) ==
  [h \in DOMAIN timers |->
    IF h \in hs
      THEN [timers[h] EXCEPT
              !.state = IF @ = "scheduled" THEN "cancelled" ELSE @,
              !.cancels = @ + 1]
      ELSE timers[h]]

\* a window is open from the next that scheduled its task until that task
\* has run
ThWindowOpen == \E h \in DOMAIN thTimers : thTimers[h].state # "done"

ThKeepsTrailingNever(edge) == FALSE

ThKeepsTrailingAlways(edge) == TRUE

\* next: if inner.edge == ThrottleEdge::Tailing
ThKeepsTrailing(edge) == edge = "Tailing"

ThStartsWindowAlways(throttled) == TRUE

\* next: if inner.throttled.is_none()
ThStartsWindow(throttled) == throttled = None

ThEmitsNowNever(edge) == FALSE

\* next: if inner.edge == ThrottleEdge::Leading
ThEmitsNow(edge) == edge = "Leading"

ThFlushNothing(trailing) == <<>>

\* trailing_value.take() handed to observer.next
ThFlush(trailing) == IF trailing = None THEN <<>> ELSE <<EvNext(trailing[1])>>

\* the producer thread's identity as a holder of the mutex; a timer task
\* is identified by its handle
Producer == 0

ThCanLockAlways(holders) == TRUE

\* self.0.lock(): granted only while nobody holds the mutex
ThCanLock(holders) == holders = {}

ThUnsubscribeAllAgain(closed, timers, children) == ThCancel(timers, children)

\* SharedSubscription::unsubscribe: the first call unsubscribes the children
ThUnsubscribeAll(closed, timers, children) ==
  IF is_closed(closed) THEN timers ELSE ThCancel(timers, children)

\* SharedSubscription::add on a subscription that may already be closed:
\* the states the new handle can be left in
ThAdded(closed) ==
  IF is_closed(closed) THEN {"scheduled", "cancelled"} ELSE {"scheduled"}

ThIdle ==
  /\ thEdge = "Leading"
  /\ thDelay = 1
  /\ thPace = 1
  /\ thNow = 0
  /\ thSent = 0
  /\ thSrcDone = FALSE
  /\ thClosed = SubscriptionDefault
  /\ thTrailing = None
  /\ thThrottled = None
  /\ thTimers = <<>>
  /\ thChildren = {}
  /\ thOut = <<>>
  /\ thArrivals = <<>>
  /\ thPc = "idle"
  /\ thHolders = {}
  /\ thUnsubCalls = 0
  /\ thCut = None

\* ThrottleTimeOp::actual_subscribe
ThInit ==
  /\ thEdge \in Edges
  /\ thDelay \in 1..MaxDelay
  /\ thPace \in 1..MaxPace
  /\ thNow = 0
  /\ thSent = 0
  /\ thSrcDone = FALSE
  /\ thClosed = SubscriptionDefault
  /\ thTrailing = None
  /\ thThrottled = None
  /\ thTimers = <<>>
  /\ thChildren = {}
  /\ thOut = <<>>
  /\ thArrivals = <<>>
  /\ thPc = "idle"
  /\ thHolders = {}
  /\ thUnsubCalls = 0
  /\ thCut = None

\* a call of the producer on the Subscriber: the is_closed() test
ThCall(pcIn, open) ==
  /\ thPc = "idle"
  /\ ~thSrcDone
  /\ thPc' = IF open THEN pcIn ELSE "idle"
  /\ UNCHANGED <<thEdge, thDelay, thPace, thNow, thClosed, thTrailing,
                 thThrottled, thTimers, thChildren, thOut, thArrivals,
                 thHolders, thUnsubCalls, thCut>>
  /\ UNCHANGED thFrame

\* the producer takes the mutex: let mut inner = self.0.lock().unwrap()
ThLock(pcIn, pcCs) ==
  /\ thPc = pcIn
  /\ ThCanLock(thHolders)
  /\ thHolders' = thHolders \cup {Producer}
  /\ thPc' = pcCs
  /\ UNCHANGED <<thEdge, thDelay, thPace, thNow, thSent, thSrcDone, thClosed,
                 thTrailing, thThrottled, thTimers, thChildren, thOut,
                 thArrivals, thUnsubCalls, thCut>>
  /\ UNCHANGED thFrame

\* the interval's item is due: Subscriber::next
ThNextCall ==
  /\ thNow = thSent * thPace
  /\ thSent * thPace <= MaxTime
  /\ thSent' = thSent + 1
  /\ thSrcDone' = thSrcDone
  /\ ThCall("next", SubNextGate(thClosed))

ThNextLock == ThLock("next", "nextCs")

\* ThrottleTimeObserver::next, the body under the mutex
ThNext ==
  /\ thPc = "nextCs"
  /\ thPc' = "idle"
  /\ thHolders' = thHolders \ {Producer}
  /\ LET v == thSent - 1
         h == Len(thTimers) + 1
     IN  /\ thTrailing' = IF ThKeepsTrailing(thEdge) THEN Some(v)
                          ELSE thTrailing
         /\ IF ThStartsWindow(thThrottled)
              THEN /\ \E st \in ThAdded(thClosed) :
                        thTimers' =
                          [ThSchedule(thTimers, thNow, thDelay)
                             EXCEPT ![h].state = st]
                   /\ thChildren' = thChildren \cup {h}
                   /\ thThrottled' = Some(h)
                   /\ thOut' = IF ThEmitsNow(thEdge)
                                 THEN Append(thOut, EvNext(v))
                                 ELSE thOut
              ELSE UNCHANGED <<thTimers, thChildren, thThrottled, thOut>>
         /\ thArrivals' =
              Append(thArrivals,
                     [v |-> v, t |-> thNow, open |-> ThWindowOpen,
                      win |-> Len(thTimers'),
                      late |-> \E k \in DOMAIN thTimers :
                                 /\ thTimers[k].state = "scheduled"
                                 /\ thTimers[k].deadline <= thNow])
  /\ UNCHANGED <<thEdge, thDelay, thPace, thNow, thSent, thSrcDone, thClosed,
                 thUnsubCalls, thCut>>
  /\ UNCHANGED thFrame

\* the scheduler starts the task of handle h, which takes the mutex: a
\* handle unsubscribed before this never gets here
ThTimerLock(h) ==
  /\ h \in DOMAIN thTimers
  /\ thTimers[h].state = "scheduled"
  /\ thTimers[h].deadline <= thNow
  /\ ThCanLock(thHolders)
  /\ thHolders' = thHolders \cup {h}
  /\ thTimers' = [thTimers EXCEPT ![h].state = "running",
                                  ![h].afterCut = thCut # None]
  /\ UNCHANGED <<thEdge, thDelay, thPace, thNow, thSent, thSrcDone, thClosed,
                 thTrailing, thThrottled, thChildren, thOut, thArrivals,
                 thPc, thUnsubCalls, thCut>>
  /\ UNCHANGED thFrame

ThDetachKeep(children, t) == children

ThTakenKept(throttled) == throttled

\* inner.throttled.take(): what the field holds afterwards
ThTaken(throttled) == None

\* inner.subscription.remove(&throttled)
ThDetach(children, t) == children \ {t}

\* the scheduled callback of handle h, the body under the mutex
ThTimerFire(h) ==
  /\ h \in DOMAIN thTimers
  /\ thTimers[h].state = "running"
  /\ thHolders' = thHolders \ {h}
  /\ thOut' = thOut \o ThFlush(thTrailing)
  /\ thTrailing' = None
  /\ LET ran == [thTimers EXCEPT ![h].state = "done"]
     IN  IF thThrottled = None
           THEN thTimers' = ran /\ UNCHANGED thChildren
           ELSE /\ thTimers' = ThHandleUnsubscribe(ran, thThrottled[1])
                /\ thChildren' = ThDetach(thChildren, thThrottled[1])
  /\ thThrottled' = ThTaken(thThrottled)
  /\ UNCHANGED <<thEdge, thDelay, thPace, thNow, thSent, thSrcDone, thClosed,
                 thArrivals, thPc, thUnsubCalls, thCut>>
  /\ UNCHANGED thFrame

\* time passes, between calls of the producer and once the interval has
\* pushed the item due now
ThTick ==
  /\ thNow < MaxTime
  /\ thPc = "idle"
  /\ thSrcDone \/ thSent * thPace > thNow
  /\ thNow' = thNow + 1
  /\ UNCHANGED <<thEdge, thDelay, thPace, thSent, thSrcDone, thClosed,
                 thTrailing, thThrottled, thTimers, thChildren, thOut,
                 thArrivals, thPc, thHolders, thUnsubCalls, thCut>>
  /\ UNCHANGED thFrame

\* time passes after the interval's last item, while a task still waits
\* for its delay
ThTickOver ==
  /\ thNow >= MaxTime
  /\ thPc = "idle"
  /\ thSrcDone \/ thSent * thPace > thNow \/ thSent * thPace > MaxTime
  /\ \E h \in DOMAIN thTimers :
       thTimers[h].state = "scheduled" /\ thTimers[h].deadline > thNow
  /\ thNow' = thNow + 1
  /\ UNCHANGED <<thEdge, thDelay, thPace, thSent, thSrcDone, thClosed,
                 thTrailing, thThrottled, thTimers, thChildren, thOut,
                 thArrivals, thPc, thHolders, thUnsubCalls, thCut>>
  /\ UNCHANGED thFrame

\* the source completes: Subscriber::complete
ThCompleteCall ==
  /\ thSrcDone' = TRUE
  /\ thSent' = thSent
  /\ ThCall("complete", SubTerminalGate(thClosed))

ThCompleteLock == ThLock("complete", "completeCs")

\* ThrottleTimeObserver::complete, the body under the mutex
ThComplete ==
  /\ thPc = "completeCs"
  /\ thPc' = "closing"
  /\ thHolders' = thHolders \ {Producer}
  /\ thOut' = (thOut \o ThFlush(thTrailing)) \o <<EvComplete>>
  /\ thTrailing' = None
  /\ UNCHANGED <<thEdge, thDelay, thPace, thNow, thSent, thSrcDone, thClosed,
                 thThrottled, thTimers, thChildren, thArrivals, thUnsubCalls,
                 thCut>>
  /\ UNCHANGED thFrame

\* the source fails: Subscriber::error
ThErrorCall ==
  /\ thSrcDone' = TRUE
  /\ thSent' = thSent
  /\ ThCall("error", SubTerminalGate(thClosed))

ThErrorLock == ThLock("error", "errorCs")

ThForwardErrorFlushed(out, trailing) ==
  Append(out \o ThFlush(trailing), EvError)

\* error: inner.observer.error(err), whatever trailing_value holds
ThForwardError(out, trailing) == Append(out, EvError)

\* ThrottleTimeObserver::error, the body under the mutex
ThError ==
  /\ thPc = "errorCs"
  /\ thPc' = "closing"
  /\ thHolders' = thHolders \ {Producer}
  /\ thOut' = ThForwardError(thOut, thTrailing)
  /\ UNCHANGED <<thEdge, thDelay, thPace, thNow, thSent, thSrcDone, thClosed,
                 thTrailing, thThrottled, thTimers, thChildren, thArrivals,
                 thUnsubCalls, thCut>>
  /\ UNCHANGED thFrame

\* Subscriber::complete / error, self.subscription.unsubscribe()
ThClose ==
  /\ thPc = "closing"
  /\ thPc' = "idle"
  /\ thTimers' = ThUnsubscribeAll(thClosed, thTimers, thChildren)
  /\ thClosed' = SubAfterTerminal(thClosed)
  /\ UNCHANGED <<thEdge, thDelay, thPace, thNow, thSent, thSrcDone,
                 thTrailing, thThrottled, thChildren, thOut, thArrivals,
                 thHolders, thUnsubCalls, thCut>>
  /\ UNCHANGED thFrame

\* the consumer calls unsubscribe() on the subscription, from any thread
ThUnsubscribe ==
  /\ thUnsubCalls < MaxUnsub
  /\ thUnsubCalls' = thUnsubCalls + 1
  /\ thTimers' = ThUnsubscribeAll(thClosed, thTimers, thChildren)
  /\ thClosed' = unsubscribe(thClosed)
  /\ thCut' = IF thCut = None
                THEN Some([out |-> Len(thOut), sent |-> thSent,
                           terminal |-> TerminalCount(thOut) > 0])
                ELSE thCut
  /\ UNCHANGED <<thEdge, thDelay, thPace, thNow, thSent, thSrcDone,
                 thTrailing, thThrottled, thChildren, thOut, thArrivals,
                 thPc, thHolders>>
  /\ UNCHANGED thFrame

(***************************************************************************)
(* The two constructions of a Subscriber (subscriber.rs): one on a         *)
(* LocalSubscription, one on a SharedSubscription, driven side by side by  *)
(* the same calls, one call at a time.  The handlers are the generic       *)
(* impl Observer for Subscriber<S, U>.                                     *)
(***************************************************************************)
\* Subscriber::local(observer)
SubscriberLocal == [closed |-> SubscriptionDefault, seen |-> <<>>]

SubscriberSharedClosed == [closed |-> TRUE, seen |-> <<>>]

\* Subscriber::shared(observer)
SubscriberShared == [closed |-> SubscriptionDefault, seen |-> <<>>]

\* IntoShared::to_shared: the same observer and subscription, shareable
ToShared(s) == [closed |-> s.closed, seen |-> s.seen]

\* Subscriber::next
SubscriberNext(s, v) ==
  IF SubNextGate(s.closed) THEN [s EXCEPT !.seen = Append(@, EvNext(v))]
  ELSE s

\* Subscriber::complete / Subscriber::error, e the event forwarded
SubscriberTerminal(s, e) ==
  IF SubTerminalGate(s.closed)
    THEN [closed |-> SubAfterTerminal(s.closed), seen |-> Append(s.seen, e)]
    ELSE s

\* Subscriber::unsubscribe
SubscriberUnsubscribe(s) == [s EXCEPT !.closed = unsubscribe(@)]

DuIdle ==
  /\ duLocal = SubscriberLocal
  /\ duShared = SubscriberLocal
  /\ duCalls = <<>>

DuInit ==
  /\ duLocal = SubscriberLocal
  /\ duShared = ToShared(SubscriberShared)
  /\ duCalls = <<>>

DuNext ==
  \E v \in 1..MaxItem :
    /\ Len(duCalls) < MaxCalls
    /\ duCalls' = Append(duCalls, EvNext(v))
    /\ duLocal' = SubscriberNext(duLocal, v)
    /\ duShared' = SubscriberNext(duShared, v)
    /\ UNCHANGED duFrame

DuComplete ==
  /\ Len(duCalls) < MaxCalls
  /\ duCalls' = Append(duCalls, EvComplete)
  /\ duLocal' = SubscriberTerminal(duLocal, EvComplete)
  /\ duShared' = SubscriberTerminal(duShared, EvComplete)
  /\ UNCHANGED duFrame

DuError ==
  /\ Len(duCalls) < MaxCalls
  /\ duCalls' = Append(duCalls, EvError)
  /\ duLocal' = SubscriberTerminal(duLocal, EvError)
  /\ duShared' = SubscriberTerminal(duShared, EvError)
  /\ UNCHANGED duFrame

DuUnsubscribe ==
  /\ Len(duCalls) < MaxCalls
  /\ duCalls' = Append(duCalls, Ev("unsubscribe", 0))
  /\ duLocal' = SubscriberUnsubscribe(duLocal)
  /\ duShared' = SubscriberUnsubscribe(duShared)
  /\ UNCHANGED duFrame

(***************************************************************************)
(* A take(n) forked and subscribed through take(n) again, once per fork    *)
(* (take.rs, test take_support_fork).  Subscribing the borrowed TakeOp     *)
(* subscribes its borrowed source, so every subscription runs the source   *)
(* from its first item through closures of its own.                        *)
(***************************************************************************)
TakeNewCountShared(counted) == counted

\* subscribe_source: let count = std::cell::Cell::new(0), whatever the
\* closures of other subscriptions have counted
TakeNewCount(counted) == 0

\* the highest count of stage i among the subscriptions made so far
FkCounted(subs, i) ==
  LET cs == {subs[j].st[i].count : j \in {k \in DOMAIN subs : subs[k].sub}}
  IN  IF cs = {} THEN 0 ELSE CHOOSE c \in cs : \A d \in cs : d <= c

\* take5.fork().take(n).fork().subscribe(..): the closures of the inner and
\* of the outer take, each made by subscribe_source
FkChain(subs, n) ==
  [i \in 1..2 |->
    [TakeStage(n) EXCEPT !.count = TakeNewCount(FkCounted(subs, i))]]

FkUnsubscribed ==
  [sub |-> FALSE, st |-> <<>>, stopped |-> FALSE, log |-> <<>>, sent |-> 0,
   done |-> FALSE]

FkIdle ==
  /\ fkN = 0
  /\ fkM = 0
  /\ fkSubs = [k \in Forks |-> FkUnsubscribed]

FkInit ==
  /\ fkN \in 0..MaxTotal
  /\ fkM \in 0..MaxCalls
  /\ fkSubs = [k \in Forks |-> FkUnsubscribed]

\* fork k is subscribed
FkSubscribe(k) ==
  /\ ~fkSubs[k].sub
  /\ fkSubs' = [fkSubs EXCEPT ![k].sub = TRUE,
                              ![k].st = FkChain(fkSubs, fkN)]
  /\ UNCHANGED <<fkN, fkM>>
  /\ UNCHANGED fkFrame

\* the source run of fork k pushes its next item; the items are 1, 2, ...
FkSrcNext(k) ==
  /\ fkSubs[k].sub
  /\ ~fkSubs[k].done
  /\ fkSubs[k].sent < fkM
  /\ LET r == DriverNext(fkSubs[k].st, fkSubs[k].stopped, fkSubs[k].sent + 1)
     IN  fkSubs' = [fkSubs EXCEPT ![k].st = r.st,
                                 ![k].stopped = r.stopped,
                                 ![k].log = @ \o r.out,
                                 ![k].sent = @ + 1]
  /\ UNCHANGED <<fkN, fkM>>
  /\ UNCHANGED fkFrame

\* the source run of fork k has pushed every item and calls complete
FkSrcComplete(k) ==
  /\ fkSubs[k].sub
  /\ ~fkSubs[k].done
  /\ fkSubs[k].sent = fkM
  /\ LET r == DriverComplete(fkSubs[k].st, fkSubs[k].stopped)
     IN  fkSubs' = [fkSubs EXCEPT ![k].st = r.st,
                                 ![k].stopped = r.stopped,
                                 ![k].log = @ \o r.out,
                                 ![k].done = TRUE]
  /\ UNCHANGED <<fkN, fkM>>
  /\ UNCHANGED fkFrame

NextSubscriber ==
  \/ SubNextCall
  \/ SubNextForward
  \/ SubCompleteCall
  \/ SubCompleteForward
  \/ SubErrorCall
  \/ SubErrorForward
  \/ SubClose
  \/ SubUnsubscribe

InitSubscriber == SubInit /\ ChainIdle /\ BcIdle /\ ThIdle /\ DuIdle /\ FkIdle

SpecSubscriber == InitSubscriber /\ [][NextSubscriber]_vars

NextChain ==
  \/ ChSrcNext
  \/ ChSrcComplete
  \/ ChSrcError
  \/ ChSrcReturn

InitChain == ChainInit /\ SubInit /\ BcIdle /\ ThIdle /\ DuIdle /\ FkIdle

SpecChain == InitChain /\ [][NextChain]_vars

NextCast ==
  \/ \E f \in Forks : BcSubscribeFork(f)
  \/ BcConnect
  \/ BcEmit
  \/ BcSrcComplete

InitCast == BcInit /\ SubInit /\ ChainIdle /\ ThIdle /\ DuIdle /\ FkIdle

SpecCast == InitCast /\ [][NextCast]_vars

NextThrottle ==
  \/ ThNextCall
  \/ ThNextLock
  \/ ThNext
  \/ \E h \in DOMAIN thTimers : ThTimerLock(h)
  \/ \E h \in DOMAIN thTimers : ThTimerFire(h)
  \/ ThTick
  \/ ThCompleteCall
  \/ ThCompleteLock
  \/ ThComplete
  \/ ThErrorCall
  \/ ThErrorLock
  \/ ThError
  \/ ThClose
  \/ ThUnsubscribe

InitThrottle == ThInit /\ SubInit /\ ChainIdle /\ BcIdle /\ DuIdle /\ FkIdle

SpecThrottle == InitThrottle /\ [][NextThrottle]_vars

\* throttle_time with no unsubscribe() by the consumer, the clock running
\* on until the last task is due, every thread scheduled fairly: time
\* passes, a due task is started and run, the interval pushes its item
\* when due, and a call in progress is carried to its end
NextThrottleLive ==
  \/ ThNextCall
  \/ ThNextLock
  \/ ThNext
  \/ \E h \in DOMAIN thTimers : ThTimerLock(h)
  \/ \E h \in DOMAIN thTimers : ThTimerFire(h)
  \/ ThTick
  \/ ThTickOver
  \/ ThCompleteCall
  \/ ThCompleteLock
  \/ ThComplete
  \/ ThErrorCall
  \/ ThErrorLock
  \/ ThError
  \/ ThClose

ThClockSteps == ThTick \/ ThTickOver

ThTimerSteps ==
  \/ \E h \in DOMAIN thTimers : ThTimerLock(h)
  \/ \E h \in DOMAIN thTimers : ThTimerFire(h)

ThProducerSteps ==
  \/ ThNextCall
  \/ ThNextLock
  \/ ThNext
  \/ ThCompleteLock
  \/ ThComplete
  \/ ThErrorLock
  \/ ThError
  \/ ThClose

SpecThrottleLive ==
  /\ InitThrottle
  /\ [][NextThrottleLive]_vars
  /\ WF_vars(ThClockSteps)
  /\ WF_vars(ThTimerSteps)
  /\ WF_vars(ThProducerSteps)

NextDual ==
  \/ DuNext
  \/ DuComplete
  \/ DuError
  \/ DuUnsubscribe

InitDual == DuInit /\ SubInit /\ ChainIdle /\ BcIdle /\ ThIdle /\ FkIdle

SpecDual == InitDual /\ [][NextDual]_vars

NextForkTake ==
  \/ \E k \in Forks : FkSubscribe(k)
  \/ \E k \in Forks : FkSrcNext(k)
  \/ \E k \in Forks : FkSrcComplete(k)

InitForkTake ==
  FkInit /\ SubInit /\ ChainIdle /\ BcIdle /\ ThIdle /\ DuIdle

SpecForkTake == InitForkTake /\ [][NextForkTake]_vars

(***************************************************************************)
(* Properties of the Subscriber.                                           *)
(***************************************************************************)
IsPrefix(s, t) == Len(s) <= Len(t) /\ SubSeq(t, 1, Len(s)) = s

RECURSIVE CallEvents(_)
\* the observer events a call sequence asks for, unsubscribe calls left out
CallEvents(calls) ==
  IF calls = <<>> THEN <<>>
  ELSE (IF Head(calls).k = "unsubscribe" THEN <<>> ELSE <<Head(calls)>>)
         \o CallEvents(Tail(calls))

SubHasCall(k) == \E i \in DOMAIN subCalls : subCalls[i].k = k

\* C1: the observer receives at most one terminal call (error and complete
\* counted together), and nothing a call made after the first terminal
\* call asks for reaches it: what the observer has seen is a prefix of the
\* events of the calls up to and including the first terminal call.
C1_TerminalExclusive ==
  /\ TerminalCount(subSeen) <= 1
  /\ \A i \in DOMAIN subCalls :
       IsTerminal(subCalls[i])
         => IsPrefix(subSeen, CallEvents(SubSeq(subCalls, 1, i)))

\* a terminal call was forwarded and a later call was made and dropped
C1_Witness ==
  /\ subPc = "idle"
  /\ ~SubHasCall("unsubscribe")
  /\ TerminalCount(subSeen) = 1
  /\ Len(subCalls) > Len(subSeen)
  /\ IsTerminal(subCalls[Len(subCalls)])

\* C2: a terminal handler that passed the gate has forwarded its event to
\* the observer before it closes the subscription, the subscription is
\* Closed once the handler has returned, and Closed is never left again.
C2_ForwardThenClosed ==
  /\ [](/\ subPc = "closing"
           => subSeen # <<>> /\ IsTerminal(subSeen[Len(subSeen)])
        /\ (subPc = "idle" /\ TerminalCount(subSeen) >= 1) => subClosed)
  /\ [][subClosed => subClosed']_vars

\* complete() or error() ran on an Active subscription and has returned
C2_Witness ==
  /\ subPc = "idle"
  /\ ~SubHasCall("unsubscribe")
  /\ TerminalCount(subSeen) = 1
  /\ subClosed

\* C3: once unsubscribe() was called with only next calls before it, the
\* observer sees nothing beyond the items of those earlier next calls: no
\* later next, error or complete reaches it.
C3_NothingAfterUnsubscribe ==
  \A i \in DOMAIN subCalls :
    (subCalls[i].k = "unsubscribe"
       /\ \A j \in 1..(i - 1) : subCalls[j].k = "next")
      => IsPrefix(subSeen, CallEvents(SubSeq(subCalls, 1, i - 1)))

\* unsubscribe() was called before any terminal event and next, complete
\* and error were all called afterwards
C3_Witness ==
  /\ subPc = "idle"
  /\ TerminalCount(subSeen) = 0
  /\ \E i \in DOMAIN subCalls :
       /\ subCalls[i].k = "unsubscribe"
       /\ \A j \in 1..(i - 1) : subCalls[j].k = "next"
       /\ \E j \in (i + 1)..Len(subCalls) : subCalls[j].k = "next"
       /\ \E j \in (i + 1)..Len(subCalls) : IsTerminal(subCalls[j])

(***************************************************************************)
(* Properties of take and first_or.                                        *)
(***************************************************************************)
Min(a, b) == IF a < b THEN a ELSE b

Max(a, b) == IF a < b THEN b ELSE a

\* the items 1 .. k as the consumer sees them
Items(k) == [i \in 1..k |-> EvNext(i)]

ChainOps == [i \in DOMAIN chStages |-> chStages[i].op]

IsTakeChain == ChainOps = <<"take">>

IsFirstOrChain == ChainOps = <<"take", "first_or">>

IsNestedFirstOrChain == ChainOps = <<"take", "first_or", "take", "first_or">>

\* the place of the source's first terminal call, Len + 1 when it made none
ChFirstTerminalAt ==
  IF \E i \in DOMAIN chCalls : IsTerminal(chCalls[i])
    THEN CHOOSE i \in DOMAIN chCalls :
           /\ IsTerminal(chCalls[i])
           /\ \A j \in 1..(i - 1) : ~IsTerminal(chCalls[j])
    ELSE Len(chCalls) + 1

\* m: the items the source pushed (before it terminated, if it did)
ChPushed == ChFirstTerminalAt - 1

\* how the source terminated: "complete", "error" or "none"
ChSourceEnd ==
  IF ChFirstTerminalAt <= Len(chCalls) THEN chCalls[ChFirstTerminalAt].k
  ELSE "none"

ChHas(e) == \E i \in DOMAIN chLog : chLog[i] = e

C5_TakeSingleComplete ==
  (IsTakeChain /\ chStages[1].total >= 1 /\ ChPushed >= chStages[1].total)
    => /\ TerminalCount(chLog) = 1
       /\ Len(chLog) = chStages[1].total + 1
       /\ chLog[Len(chLog)] = EvComplete
       /\ \A i \in 1..chStages[1].total : chLog[i] = EvNext(i)

\* take(n) stopped early and the source called complete and error later
C5_Witness ==
  /\ IsTakeChain
  /\ chStages[1].total >= 1
  /\ ChPushed = chStages[1].total
  /\ \E i, j \in DOMAIN chCalls : chCalls[i] = EvComplete /\ chCalls[j] = EvError
  /\ TerminalCount(chLog) = 1

\* C6: first_or(d) on a source whose first call is complete delivers
\* next(d) and then complete; on a source whose first call is an item it
\* delivers that item first and never d; and a first_or(d2) whose source is
\* a first_or(d) never delivers d2, it passes on what the inner one gave:
\* the inner default or the first item.
C6_FirstOr ==
  /\ (IsFirstOrChain /\ chCalls # <<>> /\ chCalls[1] = EvComplete)
       => chLog = <<EvNext(FirstOrDefault), EvComplete>>
  /\ (IsFirstOrChain /\ chCalls # <<>> /\ chCalls[1].k = "next")
       => chLog[1] = EvNext(1) /\ ~ChHas(EvNext(FirstOrDefault))
  /\ (IsNestedFirstOrChain /\ chCalls # <<>> /\ chCalls[1] = EvComplete)
       => chLog = <<EvNext(FirstOrDefault), EvComplete>>
  /\ (IsNestedFirstOrChain /\ chCalls # <<>> /\ chCalls[1].k = "next")
       => chLog[1] = EvNext(1) /\ ~ChHas(EvNext(FirstOrDefault))
  /\ IsNestedFirstOrChain => ~ChHas(EvNext(OuterDefault))

\* the source completed without an item, then failed: the consumer of the
\* outer first_or got the inner default and one complete
C6_Witness ==
  /\ IsNestedFirstOrChain
  /\ Len(chCalls) >= 2
  /\ chCalls[1] = EvComplete
  /\ chCalls[2] = EvError
  /\ chLog = <<EvNext(FirstOrDefault), EvComplete>>

(***************************************************************************)
(* Properties of the broadcast core.                                       *)
(***************************************************************************)
BcChainOps(f) == [i \in DOMAIN bcForks[f].st |-> bcForks[f].st[i].op]

BcSubscribed == {f \in Forks : bcForks[f].sub}

\* C7: with multicast() over the synchronous source 1, 2, ... and the forks
\* 1 and 2 each bounded by first(), once both forks are subscribed each
\* has received the item 1, and the source was subscribed exactly once.
C7_ForkFanOut ==
  (/\ bcApi = "multicast"
   /\ bcSync
   /\ {1, 2} \subseteq BcSubscribed
   /\ \A f \in {1, 2} : BcChainOps(f) = <<"take", "take">>)
    => /\ \A f \in {1, 2} :
            bcForks[f].log # <<>> /\ bcForks[f].log[1] = EvNext(1)
       /\ bcUpstream = 1

C9_PublishConnect ==
  bcApi = "publish"
    => /\ ~bcConnected => \A f \in Forks : bcForks[f].log = <<>>
       /\ \A f \in bcPre :
            bcForks[f].st = <<>>
              => bcForks[f].log
                   = Items(bcEmitted)
                       \o (IF bcSrcDone THEN <<EvComplete>> ELSE <<>>)

\* two forks subscribed, then connect(): both received both items
C9_Witness ==
  /\ bcApi = "publish"
  /\ bcConnected
  /\ {1, 2} \subseteq bcPre
  /\ bcEmitted >= 2
  /\ \A f \in {1, 2} :
       /\ bcForks[f].st = <<>>
       /\ Len(bcForks[f].log) >= 2
       /\ bcForks[f].log[1] = EvNext(1)
       /\ bcForks[f].log[2] = EvNext(2)

\* the items the downstream observer of throttle_time received, in order
ThDelivered == SelectSeq(thOut, LAMBDA e : e.k = "next")

\* the items that reached throttle_time while no window was open
ThOpeners == SelectSeq(thArrivals, LAMBDA a : ~a.open)

\* items an interval of pace thPace pushes within one window of thDelay
ThPerWindow == (thDelay + thPace - 1) \div thPace

\* C10: with edge Leading, the delivered items are exactly the items that
\* arrived while no window was open, each delivered in the step of its own
\* next call; each of them scheduled a timer due thDelay after its arrival;
\* items arriving while a window is open are never delivered, nor kept; and
\* when no item was absorbed by a window past its duration, the interval's
\* delivered items are 0, k, 2k, ... for k items per window.
C10_LeadingEdge ==
  thEdge = "Leading"
    => /\ ThDelivered = [i \in DOMAIN ThOpeners |-> EvNext(ThOpeners[i].v)]
       /\ Len(thTimers) = Len(ThOpeners)
       /\ \A i \in DOMAIN ThOpeners :
            thTimers[i].deadline = ThOpeners[i].t + thDelay
       /\ thTrailing = None
       /\ (\A i \in DOMAIN thArrivals : ~thArrivals[i].late)
            => \A i \in DOMAIN ThDelivered :
                 ThDelivered[i] = EvNext((i - 1) * ThPerWindow)

\* three windows of two items each: 0, 2 and 4 delivered, 1 and 3 absorbed
C10_Witness ==
  /\ thEdge = "Leading"
  /\ ThPerWindow = 2
  /\ Len(thArrivals) = 5
  /\ \A i \in DOMAIN thArrivals : ~thArrivals[i].late
  /\ thOut = <<EvNext(0), EvNext(2), EvNext(4)>>

\* the items that reached throttle_time during window w, in order
ThWindowItems(w) == SelectSeq(thArrivals, LAMBDA a : a.win = w)

\* the last item that reached throttle_time during window w
ThLastOf(w) == ThWindowItems(w)[Len(ThWindowItems(w))].v

\* complete has been forwarded downstream
ThCompleted == \E i \in DOMAIN thOut : thOut[i] = EvComplete

\* the windows that are over: expired, or cut short by complete
ThSettled ==
  IF ThCompleted THEN Len(thTimers)
  ELSE Cardinality({h \in DOMAIN thTimers : thTimers[h].state = "done"})

\* C11: with edge Tailing the delivered items are, window by window, the
\* last item received during each window that has expired or was cut short
\* by complete; nothing of a window still open has been delivered; and once
\* complete is forwarded it comes last, after the flushed item.
C11_TailingEdge ==
  thEdge = "Tailing"
    => /\ ThDelivered = [w \in 1..ThSettled |-> EvNext(ThLastOf(w))]
       /\ ThCompleted => thOut = Append(ThDelivered, EvComplete)
       /\ \A h \in DOMAIN thTimers :
            thTimers[h].state = "done" => thTimers[h].deadline <= thNow

\* two windows of two items expired, the third was cut short by complete
C11_Witness ==
  /\ thEdge = "Tailing"
  /\ thOut = <<EvNext(1), EvNext(3), EvNext(4), EvComplete>>
  /\ thTimers[3].state = "cancelled"

\* C12: once error has passed the Subscriber's test and holds the mutex,
\* the producer's next step hands the error to the downstream observer as
\* the only new delivery, whether or not a window is open or a trailing
\* value is buffered, and leaves trailing_value and throttled as they were.
C12_ErrorImmediate ==
  [][(thPc = "errorCs" /\ thPc' # "errorCs")
       => /\ thOut' = Append(thOut, EvError)
          /\ thTrailing' = thTrailing
          /\ thThrottled' = thThrottled
          /\ thTimers' = thTimers]_vars

\* the error was forwarded while a window was open and an item buffered
C12_Witness ==
  /\ thPc = "closing"
  /\ thOut = <<EvError>>
  /\ thTrailing = Some(1)
  /\ thThrottled = Some(1)
  /\ thTimers[1].state = "scheduled"

\* C13: the terminal event is the last delivery to the downstream observer
\* of throttle_time, and the delivered items keep the producer's order.
C13_TerminalLast ==
  /\ \A i \in DOMAIN thOut : IsTerminal(thOut[i]) => i = Len(thOut)
  /\ \A i, j \in DOMAIN ThDelivered :
       i < j => ThDelivered[i].v < ThDelivered[j].v

\* C14: once the consumer has unsubscribed before any terminal event was
\* delivered, the downstream observer receives no further item and no timer
\* callback starts its body.
C14_UnsubscribeHalts ==
  (thCut # None /\ ~thCut[1].terminal)
    => /\ \A i \in DOMAIN thOut : i > thCut[1].out => thOut[i].k # "next"
       /\ \A h \in DOMAIN thTimers : ~thTimers[h].afterCut

\* C15: unsubscribe() on the composite subscription is idempotent.  The
\* call that closes it unsubscribes every handle that is its child at that
\* moment, once; no handle is ever unsubscribed by the cascade twice, nor
\* when it is not a child, nor after its callback detached it; and a call
\* on a closed subscription changes nothing.
C15_UnsubscribeIdempotent ==
  /\ [](\A h \in DOMAIN thTimers : thTimers[h].cancels <= 1)
  /\ [][/\ (~is_closed(thClosed) /\ is_closed(thClosed'))
            => \A h \in thChildren :
                 thTimers'[h].cancels = thTimers[h].cancels + 1
        /\ \A h \in DOMAIN thTimers :
             thTimers'[h].cancels # thTimers[h].cancels
               => /\ h \in thChildren
                  /\ thTimers[h].state # "done"
                  /\ ~is_closed(thClosed)
                  /\ is_closed(thClosed')
        /\ (is_closed(thClosed) /\ thUnsubCalls' # thUnsubCalls)
             => UNCHANGED <<thClosed, thTimers, thChildren, thOut,
                            thTrailing, thThrottled>>]_vars

\* unsubscribe() was called twice: the handle of the open window was
\* cancelled once, the handle that had detached itself not at all
C15_Witness ==
  /\ thUnsubCalls = 2
  /\ Len(thTimers) = 2
  /\ thTimers[1].state = "done"
  /\ thTimers[1].cancels = 0
  /\ thTimers[2].state = "cancelled"
  /\ thTimers[2].cancels = 1
  /\ thChildren = {2}

C17_NoDuplicateNoLoss ==
  /\ \A i, j \in DOMAIN ThDelivered :
       i # j => ThDelivered[i] # ThDelivered[j]
  /\ \A i \in DOMAIN ThDelivered :
       \E j \in DOMAIN thArrivals : ThDelivered[i] = EvNext(thArrivals[j].v)
  /\ thEdge = "Tailing"
       => \A i \in DOMAIN thArrivals :
            \/ \E k \in DOMAIN ThDelivered :
                 ThDelivered[k] = EvNext(thArrivals[i].v)
            \/ \E j \in DOMAIN thArrivals :
                 j > i /\ thArrivals[j].win = thArrivals[i].win
            \/ thTrailing = Some(thArrivals[i].v)

\* Tailing: the first item was superseded by the second, which the callback
\* delivered; the third opened a new window and was flushed by complete
C17_Witness ==
  /\ thEdge = "Tailing"
  /\ Len(thArrivals) = 3
  /\ thArrivals[2].win = 1
  /\ thArrivals[3].win = 2
  /\ thOut = <<EvNext(1), EvNext(2), EvComplete>>

\* the handles whose task is waiting for its delay or is running
ThPending ==
  {h \in DOMAIN thTimers : thTimers[h].state \in {"scheduled", "running"}}

\* C18: at most one window timer is pending in every reachable state, it is
\* the one throttled holds, and a step schedules a timer only when throttled
\* is None, and then exactly one.
C18_SingleTimer ==
  /\ [](/\ Cardinality(ThPending) <= 1
        /\ \A h \in ThPending : thThrottled = Some(h))
  /\ [][Len(thTimers') # Len(thTimers)
          => /\ thThrottled = None
             /\ Len(thTimers') = Len(thTimers) + 1]_vars

\* two further items arrived while the first window's timer was pending
C18_Witness ==
  /\ Len(thArrivals) = 3
  /\ Len(thTimers) = 1
  /\ thTimers[1].state = "scheduled"
  /\ thThrottled = Some(1)

\* C19: the step in which the callback of handle h runs its body appends
\* the buffered trailing value, if any, to the deliveries and nothing else,
\* leaves trailing_value and throttled None, removes h from the children of
\* the subscription, and changes neither the subscription's state nor the
\* edge and delay.
C19_ExpiryFrame ==
  [][\A h \in DOMAIN thTimers :
       (thTimers[h].state = "running" /\ thTimers'[h].state = "done")
         => /\ thOut' = IF thTrailing = None THEN thOut
                        ELSE Append(thOut, EvNext(thTrailing[1]))
            /\ thTrailing' = None
            /\ thThrottled' = None
            /\ thChildren' = thChildren \ {h}
            /\ h \in thChildren
            /\ thClosed' = thClosed
            /\ thEdge' = thEdge
            /\ thDelay' = thDelay]_vars

\* the first window has just expired and delivered its buffered item; the
\* subscription is still open
C19_Witness ==
  /\ thEdge = "Tailing"
  /\ thOut = <<EvNext(1)>>
  /\ thTimers[1].state = "done"
  /\ Len(thTimers) = 1
  /\ thTrailing = None
  /\ thThrottled = None
  /\ thChildren = {}
  /\ ~is_closed(thClosed)

\* C20: at most one thread is inside a critical section of next, error,
\* complete or the callback at any time, and every step that writes
\* trailing_value or throttled or delivers downstream is taken by that one
\* holder of the mutex, which gives it up with that step.
C20_CriticalSections ==
  /\ [](Cardinality(thHolders) <= 1)
  /\ [][(thTrailing' # thTrailing \/ thThrottled' # thThrottled
           \/ thOut' # thOut)
          => /\ Cardinality(thHolders) = 1
             /\ thHolders' = {}]_vars

\* the callback of the first window holds the mutex while the producer,
\* past the Subscriber's test, waits for it with the next item
C20_Witness ==
  /\ thHolders = {1}
  /\ thTimers[1].state = "running"
  /\ thPc = "next"
  /\ thTrailing # None

\* C21: with edge Leading trailing_value is None in every reachable state,
\* and every step that delivers an item is the body of a next that found
\* throttled None and scheduled a timer: no expiry and no complete delivers
\* an item.
C21_LeadingNoTrailing ==
  /\ [](thEdge = "Leading" => thTrailing = None)
  /\ [][(thEdge = "Leading" /\ ThDelivered' # ThDelivered)
          => /\ thPc = "nextCs"
             /\ thThrottled = None
             /\ Len(thTimers') = Len(thTimers) + 1
             /\ thOut' = Append(thOut, EvNext(thSent - 1))]_vars

\* Leading: a window of two items expired and complete was forwarded; the
\* only item delivered is the one that opened the window
C21_Witness ==
  /\ thEdge = "Leading"
  /\ Len(thArrivals) = 2
  /\ thTimers[1].state = "done"
  /\ thOut = <<EvNext(0), EvComplete>>

\* the items fork k's subscriber received
FkItems(k) == SelectSeq(fkSubs[k].log, LAMBDA e : e.k = "next")

\* C22: every subscription counts from 0 on its own: whatever the other
\* forks have received, fork k's subscriber has received the first
\* min(n, pushed) items of its own source run, hence min(n, m) once the run
\* is over, and its closures have counted only its own items.
C22_ForkOwnCounter ==
  \A k \in Forks :
    fkSubs[k].sub
      => /\ FkItems(k) = Items(Min(fkN, fkSubs[k].sent))
         /\ fkSubs[k].done => FkItems(k) = Items(Min(fkN, fkM))
         /\ \A i \in 1..2 :
              fkSubs[k].st[i].count = Min(fkN, fkSubs[k].sent)

\* fork 1 was subscribed and received its n = 2 of 3 items before fork 2
\* was subscribed; fork 2 received 2 items as well
C22_Witness ==
  /\ fkN = 2
  /\ fkM = 3
  /\ \A k \in {1, 2} :
       /\ fkSubs[k].done
       /\ FkItems(k) = <<EvNext(1), EvNext(2)>>

\* C23: a first_or whose source fails before any item delivers the error
\* and nothing else, whatever the source calls afterwards; the default is
\* delivered at most once, only when the source's first call was complete,
\* and then directly before the complete.
C23_FirstOrError ==
  (IsFirstOrChain \/ IsNestedFirstOrChain)
    => /\ (chCalls # <<>> /\ chCalls[1] = EvError) => chLog = <<EvError>>
       /\ \A i, j \in DOMAIN chLog :
            (chLog[i] = EvNext(FirstOrDefault)
               /\ chLog[j] = EvNext(FirstOrDefault)) => i = j
       /\ ChHas(EvNext(FirstOrDefault))
            => /\ chCalls[1] = EvComplete
               /\ chLog = <<EvNext(FirstOrDefault), EvComplete>>

\* the source failed at once and called complete afterwards: the consumer
\* got the error alone
C23_Witness ==
  /\ IsFirstOrChain
  /\ Len(chCalls) >= 2
  /\ chCalls[1] = EvError
  /\ chCalls[2] = EvComplete
  /\ chLog = <<EvError>>

\* C24: with no unsubscribe() and fair scheduling, whenever throttled is
\* set, it is None again later unless a terminal event has closed the
\* subscription meanwhile; and a mutex that is held is given up again.
C24_WindowCloses ==
  /\ (thThrottled # None) ~> (thThrottled = None \/ is_closed(thClosed))
  /\ (thHolders # {}) ~> (thHolders = {})

\* the second window was opened after the first had expired, by an item
\* that arrived later; the subscription is open
C24_Witness ==
  /\ Len(thTimers) = 2
  /\ thTimers[1].state = "done"
  /\ thTimers[2].state = "scheduled"
  /\ thThrottled = Some(2)
  /\ ~is_closed(thClosed)
  /\ thUnsubCalls = 0

====
